---- MODULE Spec2Model ----
(***************************************************************************)
(* Multi-engine OCR consensus verifier (scripts/ocr_verify.py).            *)
(*                                                                         *)
(* Texts are sequences of one-character strings, so that tokenize,         *)
(* align_texts and the " ".join of the consensus words are computed as the *)
(* code computes them.  A Python dict is a sequence of [k, v] entries in   *)
(* insertion order.  An Optional value is None (<<>>) or Some(x) (<<x>>).  *)
(* A float confidence is the fraction [n, d].                              *)
(***************************************************************************)
EXTENDS Integers, Sequences, FiniteSets, TLC

VARIABLES
    pc,             \* position of the caller: new / ready / loop / done / raised / ctor_raised, or vote / voted
    clients,        \* self.clients: engine names in insertion order
    idx,            \* position of verify's loop over self.clients (1-based)
    engine_results, \* verify's local dict engine -> EngineResult
    calls,          \* number of extract_text invocations per engine in this verify call
    result,         \* the VerificationResult verify returned (None before)
    raised,         \* the exception that left __init__ or verify (None if none)
    readings,       \* calculate_consensus's argument (one alignment row)
    decision,       \* calculate_consensus's locals and return value (None before)
    image,          \* the path verify is called on: [stem, suffix]
    images,         \* main, batch mode: the sorted list of the images found
    bi,             \* main, batch mode: position of the loop over images (1-based)
    report_dir,     \* main, batch mode: whether --report-dir was given
    outputs,        \* the files of output_dir: stem -> text written
    reports,        \* the files of report_dir: stem -> report written
    batch_log,      \* per image attempted: what the loop body did with it
    texts,          \* align_texts's argument: engine -> text
    aligned_rows,   \* _build_consensus's local: the rows align_texts returned
    report,         \* the dict generate_report returned (None before)
    fields,         \* ResourceSpace: the resource's field values, field id -> value
    sync_pc,        \* per caller of sync: idle / ocr / literal / formatted / version / returned
    sync_args,      \* per caller: the arguments of its sync call that were read so far
    sync_calls,     \* the sync calls made so far
    current,        \* per caller: sync's local, the field values it fetched
    sync_result,    \* per caller: the SyncResult of its call
    updates         \* per caller: the update_field calls its call issued

verifyVars == <<clients, idx, engine_results, calls, result, raised, image>>

voteVars == <<readings, decision>>

batchVars == <<images, bi, report_dir, outputs, reports, batch_log>>

reportVars == <<texts, aligned_rows, report>>

syncVars == <<fields, sync_pc, sync_args, sync_calls, current, sync_result, updates>>

vars == <<pc, verifyVars, voteVars, batchVars, reportVars, syncVars>>

----------------------------------------------------------------------------
\* Bounds of the model

\* longest raw text an engine returns, in words
MaxWords == 2

\* the words the engines of one verify call return in all
MaxTotalWords == 4

----------------------------------------------------------------------------
\* Values

None == <<>>
Some(x) == <<x>>

Engines == {"vision", "docai", "claude", "gpt"}

\* the order in which __init__ inserts the clients into self.clients
ClientOrder == <<"vision", "docai", "claude", "gpt">>

Frac(n, d) == [n |-> n, d |-> d]

\* a > 0.8 on floats: n/d > 4/5
GreaterThan08(c) == 5 * c.n > 4 * c.d

\* ---- dict helpers (a dict is a sequence of [k, v] in insertion order) ----

Keys(d) == [i \in 1..Len(d) |-> d[i].k]

Values(d) == [i \in 1..Len(d) |-> d[i].v]

Has(d, key) == \E i \in 1..Len(d) : d[i].k = key

Get(d, key) == d[CHOOSE i \in 1..Len(d) : d[i].k = key].v

Range(s) == {s[i] : i \in 1..Len(s)}

Max(S) == CHOOSE x \in S : \A y \in S : y <= x

----------------------------------------------------------------------------
\* Characters and raw texts

\* characters matched by \w in the modelled alphabet
WordChars == {"a", "b", "A", "B"}

\* str.lower on one character
Lower(c) == IF c = "A" THEN "a" ELSE IF c = "B" THEN "b" ELSE c

\* the raw words an engine can return
RawWords == {<<"a">>, <<"b">>, <<"A", ",">>}

RECURSIVE JoinWith(_, _)
\* sep.join(words)
JoinWith(sep, words) ==
    IF words = <<>> THEN <<>>
    ELSE IF Len(words) = 1 THEN words[1]
    ELSE words[1] \o sep \o JoinWith(sep, Tail(words))

Min(a, b) == IF a <= b THEN a ELSE b

\* every raw text of at most max raw words, single-space separated
Texts(max) == UNION { {JoinWith(<<" ">>, ws) : ws \in [1..n -> RawWords]} : n \in 0..max }

----------------------------------------------------------------------------
\* tokenize (ocr_verify.py 355-359)

RECURSIVE WordRuns(_, _, _)
\* re.findall(r'\b\w+\b', s): the maximal runs of word characters of s
WordRuns(s, i, cur) ==
    IF i > Len(s) THEN (IF cur = <<>> THEN <<>> ELSE <<cur>>)
    ELSE IF s[i] \in WordChars THEN WordRuns(s, i + 1, Append(cur, s[i]))
    ELSE (IF cur = <<>> THEN <<>> ELSE <<cur>>) \o WordRuns(s, i + 1, <<>>)

tokenize(text) == WordRuns([i \in 1..Len(text) |-> Lower(text[i])], 1, <<>>)

----------------------------------------------------------------------------
\* align_texts (ocr_verify.py 362-385)

\* variant: the rows stop where the shortest text ends
align_texts_shortest(ts) ==
    LET tokenized == [j \in 1..Len(ts) |-> [k |-> ts[j].k, v |-> tokenize(ts[j].v)]]
        min_len == IF tokenized = <<>> THEN 0
                   ELSE -Max({-Len(tokenized[j].v) : j \in 1..Len(tokenized)})
    IN  [i \in 1..min_len |->
            [j \in 1..Len(tokenized) |-> [k |-> tokenized[j].k, v |-> tokenized[j].v[i]]]]

align_texts(ts) ==
    LET tokenized == [j \in 1..Len(ts) |-> [k |-> ts[j].k, v |-> tokenize(ts[j].v)]]
        max_len == IF tokenized = <<>> THEN 0
                   ELSE Max({Len(tokenized[j].v) : j \in 1..Len(tokenized)})
    IN  [i \in 1..max_len |->
            [j \in 1..Len(tokenized) |->
                [k |-> tokenized[j].k,
                 v |-> IF i <= Len(tokenized[j].v) THEN tokenized[j].v[i] ELSE <<>>]]]

----------------------------------------------------------------------------
\* calculate_consensus (ocr_verify.py 388-448)

\* collections.Counter: one more occurrence of w; a new word goes last
CounterAdd(c, w) ==
    IF \E i \in 1..Len(c) : c[i].word = w
    THEN [i \in 1..Len(c) |->
            IF c[i].word = w THEN [word |-> w, n |-> c[i].n + 1] ELSE c[i]]
    ELSE Append(c, [word |-> w, n |-> 1])

RECURSIVE CounterFrom(_, _)
CounterFrom(vals, c) ==
    IF vals = <<>> THEN c ELSE CounterFrom(Tail(vals), CounterAdd(c, Head(vals)))

\* Counter(values): the distinct words with their counts, in first-seen order
Counter(vals) == CounterFrom(vals, <<>>)

\* Counter.most_common(1)[0] is max(items, key=count): the first entry, in
\* insertion order, that has the largest count
\* variant: the last entry that has the largest count
most_common_last(c) ==
    c[CHOOSE i \in 1..Len(c) :
        /\ \A j \in 1..Len(c) : c[j].n <= c[i].n
        /\ \A j \in (i + 1)..Len(c) : c[j].n < c[i].n]

most_common_1(c) ==
    c[CHOOSE i \in 1..Len(c) :
        /\ \A j \in 1..Len(c) : c[j].n <= c[i].n
        /\ \A j \in 1..(i - 1) : c[j].n < c[i].n]

\* the sets of engine names the tie-break partitions the votes by
\* variant: vision is left out of the dedicated OCR engines
ocr_engines_docai == {"docai"}

ocr_engines == {"docai", "vision"}

llm_engines == {"claude", "gpt"}

RECURSIVE JoinStr(_, _)
\* sep.join(names) on strings
JoinStr(sep, names) ==
    IF names = <<>> THEN ""
    ELSE IF Len(names) = 1 THEN names[1]
    ELSE names[1] \o sep \o JoinStr(sep, Tail(names))

\* variant: agreement is taken to need all four engines
AllAgree_four(count, total) == count = 4

\* line 411: every voting engine read the most common word

AllAgree(count, total) == count = total

\* variant: more than three engines are needed
IsMajority_more(count) == count > 3

\* line 414: three or more engines read the most common word

IsMajority(count) == count >= 3

Decision(chosen, count, total, confidence, reason, word) ==
    [chosen |-> chosen, agreement |-> [k |-> count, n |-> total],
     confidence |-> confidence, reason |-> reason,
     most_common |-> Some([word |-> word, count |-> count])]

\* variant: the most common word is kept as the choice
NoConsensus_keep(count, total, chosen_word) ==
    Decision(Some(chosen_word), count, total, "low",
             "No consensus - flagged for human review", chosen_word)

\* lines 443-446: the word is not chosen automatically when all differ
NoConsensus(count, total, chosen_word) ==
    Decision(None, count, total, "low",
             "No consensus - flagged for human review", chosen_word)

\* variant: the empty string is returned as the word of a row without readings
NoReadings_empty_word ==
    [chosen |-> Some(<<>>), agreement |-> [k |-> 0, n |-> 0],
     confidence |-> "low", reason |-> "No readings", most_common |-> None]

\* lines 396-397: no engine has a token at the position
NoReadings ==
    [chosen |-> None, agreement |-> [k |-> 0, n |-> 0],
     confidence |-> "low", reason |-> "No readings", most_common |-> None]

calculate_consensus(row) ==
    LET valid_readings == SelectSeq(row, LAMBDA e : e.v # <<>>)
    IN  IF valid_readings = <<>>
        THEN NoReadings
        ELSE
        LET word_counts == Counter(Values(valid_readings))
            total == Len(valid_readings)
            most_common == most_common_1(word_counts)
            chosen_word == most_common.word
            count == most_common.n
        IN  IF AllAgree(count, total)
            THEN Decision(Some(chosen_word), count, total, "high",
                          "All " \o ToString(total) \o " models agree", chosen_word)
            ELSE IF IsMajority(count)
            THEN LET agreeing == Keys(SelectSeq(valid_readings, LAMBDA e : e.v = chosen_word))
                 IN  Decision(Some(chosen_word), count, total, "high",
                              "Majority agreement (" \o JoinStr(", ", agreeing) \o ")",
                              chosen_word)
            ELSE IF count = 2 /\ total >= 3
            THEN LET ocr_votes == SelectSeq(valid_readings, LAMBDA e : e.k \in ocr_engines)
                     llm_votes == SelectSeq(valid_readings, LAMBDA e : e.k \in llm_engines)
                 IN  IF Cardinality(Range(Values(ocr_votes))) = 1 /\ ocr_votes # <<>>
                     THEN Decision(Some(ocr_votes[1].v), count, total, "medium",
                                   "OCR engines agree, LLMs differ", chosen_word)
                     ELSE IF Cardinality(Range(Values(llm_votes))) = 1 /\ llm_votes # <<>>
                     THEN IF llm_votes[1].v = chosen_word
                          THEN Decision(Some(chosen_word), count, total, "medium",
                                        "LLMs agree, OCR engines differ", chosen_word)
                          ELSE Decision(Some(chosen_word), count, total, "medium",
                                        "Split vote - majority wins", chosen_word)
                     ELSE Decision(Some(chosen_word), count, total, "medium",
                                   "Split vote - majority wins", chosen_word)
            ELSE NoConsensus(count, total, chosen_word)

----------------------------------------------------------------------------
\* Engine adapters

EngineResult(engine, text, confidence, error) ==
    [engine |-> engine, text |-> text, confidence |-> confidence, error |-> error]

\* EngineResult.success (ocr_verify.py 118-120)
success(r) == r.error = None

\* confidences a dedicated OCR client reports (the mean of its page or block
\* confidences, 0.0 when the response has none)
OCRConfidences == {Frac(0, 1), Frac(19, 20)}

\* str(e) of the exceptions an engine call raises
ErrorMessages == {"Connection failed"}

\* what one call of client.extract_text / client._call_api does
OCROutcomes(max) ==
    [kind : {"ok"}, text : Texts(max), confidence : OCRConfidences, msg : {""}]
    \cup [kind : {"raise"}, text : {<<>>}, confidence : {Frac(0, 1)}, msg : ErrorMessages]

LLMOutcomes(max) ==
    [kind : {"ok"}, text : Texts(max), confidence : {Frac(0, 1)}, msg : {""}]
    \cup [kind : {"raise"}, text : {<<>>}, confidence : {Frac(0, 1)}, msg : ErrorMessages]

Outcomes(engine, max) ==
    IF engine \in {"docai", "vision"} THEN OCROutcomes(max) ELSE LLMOutcomes(max)

\* ocr.py 76-86: the suffixes Document AI takes
SUPPORTED_TYPES == {".jpg", ".jpeg", ".png", ".gif", ".webp", ".bmp", ".tiff", ".tif", ".pdf"}

\* path.suffix.lower()
suffix_lower(suffix) ==
    IF suffix = ".JPG" THEN ".jpg" ELSE IF suffix = ".XYZ" THEN ".xyz" ELSE suffix

\* what a client's call does on the file image_path: DocumentAIClient raises
\* ValueError for a suffix it does not know (ocr.py 445-448); VisionAPIClient
\* reads any file, and the LLM clients send an unknown suffix as image/jpeg
\* (ocr_verify.py 170-178, 266-274)
ClientOutcomes(engine, image_path, max) ==
    IF engine = "docai" /\ suffix_lower(image_path.suffix) \notin SUPPORTED_TYPES
    THEN [kind : {"raise"}, text : {<<>>}, confidence : {Frac(0, 1)},
          msg : {"Unsupported file type"}]
    ELSE Outcomes(engine, max)

\* how a call ends: it returns a value or an exception leaves it
Return(value) == [raises |-> None, value |-> Some(value)]

Raise(msg) == [raises |-> Some(msg), value |-> None]

\* variant: the same client without its try/except
extract_text_uncaught(engine, outcome) ==
    IF outcome.kind = "ok"
    THEN Return(EngineResult(engine, outcome.text, Frac(9, 10), None))
    ELSE Raise(outcome.msg)

\* ClaudeVisionClient.extract_text / GPTVisionClient.extract_text: the whole
\* body is inside try/except Exception
extract_text(engine, outcome) ==
    IF outcome.kind = "ok"
    THEN Return(EngineResult(engine, outcome.text, Frac(9, 10), None))
    ELSE Return(EngineResult(engine, <<>>, Frac(0, 1), Some(outcome.msg)))

\* one iteration of verify's loop (ocr_verify.py 496-525): the dedicated OCR
\* clients are called inside try/except, the LLM clients are not
RunClient(engine_name, outcome) ==
    IF engine_name \in {"docai", "vision"}
    THEN IF outcome.kind = "ok"
         THEN Return(EngineResult(engine_name, outcome.text, outcome.confidence, None))
         ELSE Return(EngineResult(engine_name, <<>>, Frac(0, 1), Some(outcome.msg)))
    ELSE extract_text(engine_name, outcome)

----------------------------------------------------------------------------
\* _build_consensus (ocr_verify.py 537-641)

VerificationResult(src, used, text, conf, total, high, medium, low, dis, er) ==
    [source_file |-> src, models_used |-> used,
     consensus_text |-> text, overall_confidence |-> conf,
     total_words |-> total, high_confidence_words |-> high,
     medium_confidence_words |-> medium, low_confidence_words |-> low,
     disagreements |-> dis, engine_results |-> er]

WordComparison(position, row, d) ==
    [position |-> position, readings |-> row, chosen |-> d.chosen,
     agreement |-> d.agreement, confidence |-> d.confidence, reason |-> d.reason]

\* variant: the readings are looked up in the order of the clients
FallbackOrder_clients == <<"vision", "docai", "claude", "gpt">>

\* the order in which a word is taken when nothing was chosen (line 600)
FallbackOrder == <<"docai", "vision", "claude", "gpt">>

\* lines 596-603: the word (or nothing) position contributes to consensus_words
ConsensusWord(row, chosen) ==
    IF chosen # None /\ chosen[1] # <<>>
    THEN <<chosen[1]>>
    ELSE LET avail == SelectSeq(FallbackOrder,
                                LAMBDA e : Has(row, e) /\ Get(row, e) # <<>>)
         IN  IF avail = <<>> THEN <<>> ELSE <<Get(row, avail[1])>>

RECURSIVE Flatten(_)
Flatten(ss) == IF ss = <<>> THEN <<>> ELSE Head(ss) \o Flatten(Tail(ss))

\* variant: vision is looked up before docai
PreferOriginal_vision(joined, overall_confidence, successful) ==
    IF GreaterThan08(overall_confidence) /\ Has(successful, "vision")
    THEN Get(successful, "vision").text
    ELSE IF GreaterThan08(overall_confidence) /\ Has(successful, "docai")
    THEN Get(successful, "docai").text
    ELSE joined

\* lines 623-628: the raw text of the most reliable engine replaces the joined one
PreferOriginal(joined, overall_confidence, successful) ==
    IF GreaterThan08(overall_confidence) /\ Has(successful, "docai")
    THEN Get(successful, "docai").text
    ELSE IF GreaterThan08(overall_confidence) /\ Has(successful, "vision")
    THEN Get(successful, "vision").text
    ELSE joined

\* variant: models_used lists the successful engines only
EmptyResult_successful(source_file, er) ==
    VerificationResult(source_file, <<>>, <<>>, Frac(0, 1), 0, 0, 0, 0, <<>>, er)

\* lines 546-557: no engine succeeded
EmptyResult(source_file, er) ==
    VerificationResult(source_file, Keys(er), <<>>, Frac(0, 1), 0, 0, 0, 0, <<>>, er)

\* variant: the words of a single reading are not counted in any tier
SingleResult_uncounted(source_file, er, successful) ==
    LET r == successful[1].v
    IN  VerificationResult(source_file, Keys(er), r.text, r.confidence,
                           Len(tokenize(r.text)), 0, 0, 0, <<>>, er)

\* lines 559-572: one engine succeeded, its result is used directly
SingleResult(source_file, er, successful) ==
    LET r == successful[1].v
    IN  VerificationResult(source_file, Keys(er), r.text, r.confidence,
                           Len(tokenize(r.text)), 0, 0, Len(tokenize(r.text)),
                           <<>>, er)

\* variant: a text without words is fully trusted
OverallConfidence_empty_one(high_count, total_words) ==
    IF total_words > 0 THEN Frac(high_count, total_words) ELSE Frac(1, 1)

\* line 618: high_count / total_words if total_words > 0 else 0.0
OverallConfidence(high_count, total_words) ==
    IF total_words > 0 THEN Frac(high_count, total_words) ELSE Frac(0, 1)

\* lines 574-641: the successful readings are aligned and voted on
VotedResult(source_file, er, successful) ==
    LET successful_text == [j \in 1..Len(successful) |->
                               [k |-> successful[j].k, v |-> successful[j].v.text]]
        aligned == align_texts(successful_text)
        ds == [i \in 1..Len(aligned) |-> calculate_consensus(aligned[i])]
        high_count == Cardinality({i \in 1..Len(ds) : ds[i].confidence = "high"})
        medium_count == Cardinality({i \in 1..Len(ds) : ds[i].confidence = "medium"})
        low_count == Cardinality({i \in 1..Len(ds) :
                                    ds[i].confidence \notin {"high", "medium"}})
        consensus_words ==
            Flatten([i \in 1..Len(ds) |-> ConsensusWord(aligned[i], ds[i].chosen)])
        all == [i \in 1..Len(ds) |-> WordComparison(i - 1, aligned[i], ds[i])]
        disagreements ==
            SelectSeq(all, LAMBDA w :
                Cardinality(Range(Values(w.readings)) \ {<<>>}) > 1)
        total_words == Len(aligned)
        overall_confidence == OverallConfidence(high_count, total_words)
        consensus_text == JoinWith(<<" ">>, consensus_words)
    IN  VerificationResult(source_file, Keys(er),
                           PreferOriginal(consensus_text, overall_confidence, successful),
                           overall_confidence, total_words,
                           high_count, medium_count, low_count, disagreements, er)

\* variant: the same without the single-engine shortcut
_build_consensus_vote_always(source_file, er) ==
    LET successful == SelectSeq(er, LAMBDA e : success(e.v))
    IN  IF successful = <<>>
        THEN EmptyResult(source_file, er)
        ELSE VotedResult(source_file, er, successful)

_build_consensus(source_file, er) ==
    LET successful == SelectSeq(er, LAMBDA e : success(e.v))
    IN  IF successful = <<>>
        THEN EmptyResult(source_file, er)
        ELSE IF Len(successful) = 1
        THEN SingleResult(source_file, er, successful)
        ELSE VotedResult(source_file, er, successful)

----------------------------------------------------------------------------
\* generate_report (ocr_verify.py 648-679)

\* line 677: the number of disagreements a report lists
ReportLimit == 50

\* round(x, 4) of the fraction c, in ten-thousandths: the nearest one, the
\* even one when two are equally near
round4(c) ==
    LET q == (10000 * c.n) \div c.d
        r == (10000 * c.n) % c.d
    IN  IF 2 * r > c.d \/ (2 * r = c.d /\ q % 2 = 1)
        THEN Frac(q + 1, 10000)
        ELSE Frac(q, 10000)

\* variant: the last entries are kept
Limited_last(ds) == SubSeq(ds, Len(ds) - Min(Len(ds), ReportLimit) + 1, Len(ds))

\* result.disagreements[:50]
Limited(ds) == SubSeq(ds, 1, Min(Len(ds), ReportLimit))

\* variant: the count is taken of the list as reported
disagreement_count_listed(ds) == Len(Limited(ds))

\* line 659: len(result.disagreements)
disagreement_count(ds) == Len(ds)

generate_report(r) ==
    [source_file |-> r.source_file,
     models_used |-> r.models_used,
     overall_confidence |-> round4(r.overall_confidence),
     total_words |-> r.total_words,
     high_confidence |-> r.high_confidence_words,
     medium_confidence |-> r.medium_confidence_words,
     low_confidence |-> r.low_confidence_words,
     disagreement_count |-> disagreement_count(r.disagreements),
     engine_status |->
        [j \in 1..Len(r.engine_results) |->
            LET e == r.engine_results[j].v
            IN  [k |-> r.engine_results[j].k,
                 v |-> [success |-> success(e),
                        chars |-> IF success(e) THEN Len(e.text) ELSE 0,
                        confidence |-> round4(e.confidence),
                        error |-> e.error]]],
     disagreements |->
        [j \in 1..Len(Limited(r.disagreements)) |->
            LET d == Limited(r.disagreements)[j]
            IN  [position |-> d.position, readings |-> d.readings,
                 chosen |-> d.chosen, agreement |-> d.agreement,
                 confidence |-> d.confidence, reason |-> d.reason]]]

----------------------------------------------------------------------------
\* OCRVerificationEngine: construction and verify

\* __init__ (ocr_verify.py 458-482): the clients given, in the order they are
\* inserted, filtered to the enabled engines when that list is not empty
__init__(provided, enabled_engines) ==
    LET given == SelectSeq(ClientOrder, LAMBDA e : e \in provided)
    IN  IF enabled_engines # {}
        THEN SelectSeq(given, LAMBDA e : e \in enabled_engines)
        ELSE given

\* variant: the constructor accepts an empty self.clients
NoClients_never(cs) == FALSE

\* line 481: no client is left
NoClients(cs) == cs = <<>>

\* the image verify is called on
ImagePath == [stem |-> "page", suffix |-> ".jpg"]

\* the callers of sync; the sequential calls are all caller 1's
Callers == {1, 2}

\* no sync call was made
SyncIdle ==
    /\ fields = <<>>
    /\ sync_pc = [p \in Callers |-> "idle"]
    /\ sync_args = [p \in Callers |-> <<>>]
    /\ sync_calls = 0
    /\ current = [p \in Callers |-> <<>>]
    /\ sync_result = [p \in Callers |-> <<>>]
    /\ updates = [p \in Callers |-> <<>>]

\* no report was asked for yet
ReportIdle ==
    /\ texts = <<>>
    /\ aligned_rows = <<>>
    /\ report = None

\* main is not in batch mode
BatchIdle ==
    /\ images = <<>>
    /\ bi = 0
    /\ report_dir = FALSE
    /\ outputs = <<>>
    /\ reports = <<>>
    /\ batch_log = <<>>

Init ==
    /\ pc = "new"
    /\ clients = <<>>
    /\ idx = 0
    /\ engine_results = <<>>
    /\ calls = [e \in Engines |-> 0]
    /\ result = None
    /\ raised = None
    /\ readings = <<>>
    /\ decision = None
    /\ image = ImagePath
    /\ BatchIdle
    /\ ReportIdle
    /\ SyncIdle

\* the same engine, about to be given a file of a type no adapter lists
InitUnsupported ==
    /\ pc = "new"
    /\ clients = <<>>
    /\ idx = 0
    /\ engine_results = <<>>
    /\ calls = [e \in Engines |-> 0]
    /\ result = None
    /\ raised = None
    /\ readings = <<>>
    /\ decision = None
    /\ image \in {[stem |-> "page", suffix |-> ".xyz"], [stem |-> "page", suffix |-> ".XYZ"]}
    /\ BatchIdle
    /\ ReportIdle
    /\ SyncIdle

\* OCRVerificationEngine(...): raises ValueError when no client is left
Construct ==
    /\ pc = "new"
    /\ \E provided \in SUBSET Engines, enabled_engines \in SUBSET Engines :
          LET cs == __init__(provided, enabled_engines)
          IN  IF NoClients(cs)
              THEN /\ pc' = "ctor_raised"
                   /\ raised' = Some("ValueError")
                   /\ clients' = <<>>
              ELSE /\ pc' = "ready"
                   /\ raised' = None
                   /\ clients' = cs
    /\ UNCHANGED <<idx, engine_results, calls, result, readings, decision, image>>
    /\ UNCHANGED <<batchVars, reportVars, syncVars>>

\* verify, lines 488-494: the path check, then the empty engine_results; with
\* no client the loop body never runs and line 535 returns at once
VerifyBegin ==
    /\ pc = "ready"
    /\ \E exists \in BOOLEAN :
          IF ~exists
          THEN /\ pc' = "raised"
               /\ raised' = Some("FileNotFoundError")
               /\ UNCHANGED <<idx, result>>
          ELSE /\ raised' = None
               /\ idx' = 1
               /\ IF clients = <<>>
                  THEN /\ result' = Some(_build_consensus(image, <<>>))
                       /\ pc' = "done"
                  ELSE /\ result' = result
                       /\ pc' = "loop"
    /\ engine_results' = <<>>
    /\ UNCHANGED <<clients, calls, readings, decision, image>>
    /\ UNCHANGED <<batchVars, reportVars, syncVars>>

\* the words the readings collected so far hold in all: the engines of one
\* call return at most MaxTotalWords words together
RECURSIVE WordsSoFar(_)
WordsSoFar(er) ==
    IF er = <<>> THEN 0 ELSE Len(tokenize(Head(er).v.text)) + WordsSoFar(Tail(er))

\* verify, lines 496-535: the next client of self.clients is run and its
\* reading stored; after the last client verify returns _build_consensus(...)
RunEngine ==
    /\ pc = "loop"
    /\ idx <= Len(clients)
    /\ \E outcome \in ClientOutcomes(clients[idx], image,
                               Min(MaxWords, MaxTotalWords - WordsSoFar(engine_results))) :
          LET call == RunClient(clients[idx], outcome)
              er == Append(engine_results, [k |-> clients[idx], v |-> call.value[1]])
          IN  IF call.raises # None
              THEN /\ pc' = "raised"
                   /\ raised' = Some(call.raises[1])
                   /\ UNCHANGED <<engine_results, result, idx>>
              ELSE /\ engine_results' = er
                   /\ raised' = raised
                   /\ idx' = idx + 1
                   /\ IF idx = Len(clients)
                      THEN /\ result' = Some(_build_consensus(image, er))
                           /\ pc' = "done"
                      ELSE /\ result' = result
                           /\ pc' = pc
    /\ calls' = [calls EXCEPT ![clients[idx]] = @ + 1]
    /\ UNCHANGED <<clients, readings, decision, image>>
    /\ UNCHANGED <<batchVars, reportVars, syncVars>>

Next == Construct \/ VerifyBegin \/ RunEngine

Spec == Init /\ [][Next]_vars

SpecUnsupported == InitUnsupported /\ [][Next]_vars

----------------------------------------------------------------------------
\* verify as one call, and the batch mode of main (ocr_verify.py 855-900)

RECURSIVE RunClients(_, _, _)
\* verify's loop, lines 496-525: outs[j] is what the j-th client's call does
RunClients(cs, outs, er) ==
    IF cs = <<>> THEN Return(er)
    ELSE LET call == RunClient(Head(cs), Head(outs))
         IN  IF call.raises # None
             THEN Raise(call.raises[1])
             ELSE RunClients(Tail(cs), Tail(outs),
                             Append(er, [k |-> Head(cs), v |-> call.value[1]]))

\* verify, lines 484-535
verify(cs, image_path, exists, outs) ==
    IF ~exists THEN Raise("FileNotFoundError")
    ELSE LET run == RunClients(cs, outs, <<>>)
         IN  IF run.raises # None THEN Raise(run.raises[1])
             ELSE Return(_build_consensus(image_path, run.value[1]))

\* the glob hits of one batch run, duplicates included
MaxFound == 3

\* the image files of input_dir, in the order sorted() gives their paths
AllImages ==
    <<[stem |-> "a", suffix |-> ".jpg"],
      [stem |-> "a", suffix |-> ".png"],
      [stem |-> "b", suffix |-> ".jpg"]>>

\* line 873: sorted(set(images))
sorted_set(found) == SelectSeq(AllImages, LAMBDA im : im \in Range(found))

\* dict[key] = value
Put(d, key, value) ==
    IF Has(d, key)
    THEN [i \in 1..Len(d) |-> IF d[i].k = key THEN [k |-> key, v |-> value] ELSE d[i]]
    ELSE Append(d, [k |-> key, v |-> value])

\* Path.write_text: the file is opened for writing, which empties it, then
\* the text is written; how is "ok", "open_fails" or "write_fails"
write_text(files, name, text, how) ==
    IF how = "open_fails" THEN files
    ELSE IF how = "write_fails" THEN Put(files, name, <<>>)
    ELSE Put(files, name, text)

WriteOutcomes == {"ok", "open_fails", "write_fails"}

\* what the engines of a batch run can do on one image
BatchOutcomes(cs) ==
    { outs \in [1..Len(cs) -> UNION {Outcomes(e, 1) : e \in Range(cs)}] :
        \A j \in 1..Len(cs) : outs[j] \in Outcomes(cs[j], 1) }

\* what the loop body did with one image
Attempt(image_path, res, wrote, reported, error) ==
    [image |-> image_path, result |-> res, wrote |-> wrote,
     reported |-> reported, error |-> error]

\* variant: no try/except in the loop body, an exception ends the loop
NextImage_abort(i, n, failed) == IF failed THEN n + 1 ELSE i + 1

\* lines 876 and 897-898: the exception is logged and the loop goes on
NextImage(i, n, failed) == i + 1

InitBatch ==
    /\ pc = "batch"
    /\ clients = <<"claude">>
    /\ idx = 0
    /\ engine_results = <<>>
    /\ calls = [e \in Engines |-> 0]
    /\ result = None
    /\ raised = None
    /\ image = ImagePath
    /\ readings = <<>>
    /\ decision = None
    /\ images \in {sorted_set(found) :
                      found \in UNION {[1..n -> Range(AllImages)] : n \in 0..MaxFound}}
    /\ bi = 1
    /\ report_dir \in BOOLEAN
    /\ outputs = <<>>
    /\ reports = <<>>
    /\ batch_log = <<>>
    /\ ReportIdle
    /\ SyncIdle

\* one iteration of the loop, lines 876-898
ProcessImage ==
    /\ pc = "batch"
    /\ bi <= Len(images)
    /\ \E exists \in BOOLEAN, outs \in BatchOutcomes(clients),
          how_output \in WriteOutcomes, how_report \in WriteOutcomes :
          LET image_path == images[bi]
              call == verify(clients, image_path, exists, outs)
              res == call.value[1]
          IN  IF call.raises # None
              THEN /\ batch_log' = Append(batch_log,
                                         Attempt(image_path, None, None, None, call.raises))
                   /\ bi' = NextImage(bi, Len(images), TRUE)
                   /\ UNCHANGED <<outputs, reports>>
              ELSE /\ outputs' = write_text(outputs, image_path.stem,
                                            res.consensus_text, how_output)
                   /\ IF how_output # "ok"
                      THEN /\ batch_log' = Append(batch_log,
                                  Attempt(image_path, Some(res), None, None, Some("OSError")))
                           /\ bi' = NextImage(bi, Len(images), TRUE)
                           /\ UNCHANGED reports
                      ELSE IF ~report_dir
                      THEN /\ batch_log' = Append(batch_log,
                                  Attempt(image_path, Some(res), Some(res.consensus_text),
                                          None, None))
                           /\ bi' = NextImage(bi, Len(images), FALSE)
                           /\ UNCHANGED reports
                      ELSE /\ reports' = write_text(reports, image_path.stem,
                                                    generate_report(res), how_report)
                           /\ IF how_report # "ok"
                              THEN /\ batch_log' = Append(batch_log,
                                          Attempt(image_path, Some(res),
                                                  Some(res.consensus_text), None,
                                                  Some("OSError")))
                                   /\ bi' = NextImage(bi, Len(images), TRUE)
                              ELSE /\ batch_log' = Append(batch_log,
                                          Attempt(image_path, Some(res),
                                                  Some(res.consensus_text),
                                                  Some(generate_report(res)), None))
                                   /\ bi' = NextImage(bi, Len(images), FALSE)
    /\ UNCHANGED <<pc, images, report_dir>>
    /\ UNCHANGED <<verifyVars, voteVars, reportVars, syncVars>>

\* lines 900-902: the loop is over, main returns 0
BatchEnd ==
    /\ pc = "batch"
    /\ bi > Len(images)
    /\ pc' = "batch_done"
    /\ UNCHANGED <<verifyVars, voteVars, batchVars, reportVars, syncVars>>

NextBatch == ProcessImage \/ BatchEnd

\* every iteration ends (by a return or by an exception), so the loop advances
SpecBatch == InitBatch /\ [][NextBatch]_vars /\ WF_vars(NextBatch)

----------------------------------------------------------------------------
\* _build_consensus and generate_report on the readings of one image: the
\* single-image mode of main (ocr_verify.py 823-853) once the engines ran

\* words of the long readings; more than ReportLimit
MaxLongWords == 52

\* words of the readings of two engines
MaxPairWords == 5

\* words of the readings of any set of engines
MaxShortWords == 1

\* i times the word a, then j times the word b; decorated, a leading a is
\* written "A,"
Pattern(i, j, decorated) ==
    JoinWith(<<" ">>,
             [k \in 1..(i + j) |->
                 IF k > i THEN <<"b">>
                 ELSE IF k = 1 /\ decorated THEN <<"A", ",">>
                 ELSE <<"a">>])

\* the pattern texts of at most max words
PatternTexts(max) ==
    { Pattern(t[1], t[2], t[3]) :
        t \in { u \in (0..max) \X (0..max) \X BOOLEAN :
                  u[1] + u[2] <= max /\ (u[3] => u[1] >= 1) } }

\* the confidence of a successful reading: Document AI and Vision report
\* their own, the LLM clients a fixed 0.9
ReadingConfidence(engine) ==
    IF engine \in {"docai", "vision"} THEN Frac(19, 20) ELSE Frac(9, 10)

\* a successful reading, as verify stores it
Reading(engine, text) ==
    [k |-> engine, v |-> EngineResult(engine, text, ReadingConfidence(engine), None)]

\* a failed reading, as verify stores it
Failed(engine) ==
    [k |-> engine, v |-> EngineResult(engine, <<>>, Frac(0, 1), Some("Connection failed"))]

\* Document AI read MaxLongWords times a, Claude some a's and then b's
LongReadings ==
    { <<Reading("docai", Pattern(MaxLongWords, 0, FALSE)),
        Reading("claude", Pattern(t[1], t[2], FALSE))>> :
        t \in { u \in (0..MaxLongWords) \X (0..MaxLongWords) :
                  u[1] + u[2] <= MaxLongWords } }

\* two engines, each with a pattern text
PairReadings ==
    { <<Reading(ClientOrder[p[1]], t[1]), Reading(ClientOrder[p[2]], t[2])>> :
        p \in { q \in (1..4) \X (1..4) : q[1] < q[2] },
        t \in PatternTexts(MaxPairWords) \X PatternTexts(MaxPairWords) }

\* any clients, each failed or with a short pattern text
ShortReadings ==
    UNION { LET cs == SelectSeq(ClientOrder, LAMBDA e : e \in S)
            IN  { [j \in 1..Len(cs) |->
                      IF f[cs[j]] = <<"failed">> THEN Failed(cs[j])
                      ELSE Reading(cs[j], f[cs[j]])] :
                    f \in [S -> PatternTexts(MaxShortWords) \cup {<<"failed">>}] }
          : S \in (SUBSET Engines) \ {{}} }

\* line 575: the texts of the successful readings
successful_texts(er) ==
    LET successful == SelectSeq(er, LAMBDA e : success(e.v))
    IN  [j \in 1..Len(successful) |->
            [k |-> successful[j].k, v |-> successful[j].v.text]]

InitReadings ==
    /\ pc = "readings"
    /\ engine_results \in LongReadings \cup PairReadings \cup ShortReadings
    /\ clients = Keys(engine_results)
    /\ idx = Len(clients) + 1
    /\ calls = [e \in Engines |-> IF e \in Range(clients) THEN 1 ELSE 0]
    /\ result = None
    /\ raised = None
    /\ image = ImagePath
    /\ readings = <<>>
    /\ decision = None
    /\ BatchIdle
    /\ ReportIdle
    /\ SyncIdle

\* verify's last line and main's lines 825-853: the result is built from the
\* readings and the report from the result
BuildReport ==
    /\ pc = "readings"
    /\ result' = Some(_build_consensus(image, engine_results))
    /\ texts' = IF Len(successful_texts(engine_results)) >= 2
                THEN successful_texts(engine_results)
                ELSE <<>>
    /\ aligned_rows' = IF Len(successful_texts(engine_results)) >= 2
                       THEN align_texts(texts')
                       ELSE <<>>
    /\ report' = Some(generate_report(result'[1]))
    /\ pc' = "reported"
    /\ UNCHANGED <<clients, idx, engine_results, calls, raised, image>>
    /\ UNCHANGED <<voteVars, batchVars, syncVars>>

NextReadings == BuildReport

SpecReadings == InitReadings /\ [][NextReadings]_vars

----------------------------------------------------------------------------
\* align_texts on any map of texts

\* words of a text given to align_texts
MaxAlignWords == 2

\* any map of engine to text, its keys in the order of the clients
TextMaps ==
    UNION { LET ks == SelectSeq(ClientOrder, LAMBDA e : e \in S)
            IN  { [j \in 1..Len(ks) |-> [k |-> ks[j], v |-> f[ks[j]]]] :
                    f \in [S -> PatternTexts(MaxAlignWords)] }
          : S \in SUBSET Engines }

InitAlign ==
    /\ pc = "texts"
    /\ texts \in TextMaps
    /\ aligned_rows = <<>>
    /\ report = None
    /\ clients = <<>>
    /\ idx = 0
    /\ engine_results = <<>>
    /\ calls = [e \in Engines |-> 0]
    /\ result = None
    /\ raised = None
    /\ image = ImagePath
    /\ readings = <<>>
    /\ decision = None
    /\ BatchIdle
    /\ SyncIdle

\* align_texts(texts)
Align ==
    /\ pc = "texts"
    /\ aligned_rows' = align_texts(texts)
    /\ pc' = "aligned"
    /\ UNCHANGED <<texts, report>>
    /\ UNCHANGED <<verifyVars, voteVars, batchVars, syncVars>>

NextAlign == Align

SpecAlign == InitAlign /\ [][NextAlign]_vars

----------------------------------------------------------------------------
\* calculate_consensus on one alignment row

\* the tokens of a row
VoteTokens == {<<"t", "h", "e">>, <<"t", "e", "h">>, <<"t", "h", "c">>, <<"t", "b", "e">>}

\* the rows align_texts builds: an entry per successful engine, in the order
\* of self.clients, the empty string where the engine's text is shorter
Rows ==
    UNION { LET ks == SelectSeq(ClientOrder, LAMBDA e : e \in S)
            IN  { [j \in 1..Len(ks) |-> [k |-> ks[j], v |-> f[ks[j]]]] :
                    f \in [S -> VoteTokens \cup {<<>>}] }
          : S \in SUBSET Engines }

InitVote ==
    /\ pc = "vote"
    /\ readings \in Rows
    /\ decision = None
    /\ clients = <<>>
    /\ idx = 0
    /\ engine_results = <<>>
    /\ calls = [e \in Engines |-> 0]
    /\ result = None
    /\ raised = None
    /\ image = ImagePath
    /\ BatchIdle
    /\ ReportIdle
    /\ SyncIdle

Decide ==
    /\ pc = "vote"
    /\ decision' = Some(calculate_consensus(readings))
    /\ pc' = "voted"
    /\ UNCHANGED <<verifyVars, readings>>
    /\ UNCHANGED <<batchVars, reportVars, syncVars>>

NextVote == Decide

SpecVote == InitVote /\ [][NextVote]_vars

----------------------------------------------------------------------------
\* TranscriptionSync (sync_transcription.py).  A str is a sequence of
\* characters; the values of the enums and the notes are written as one
\* symbol.  The Optional arguments of sync are None or Some(str).

\* FieldIDs (lines 60-80)
OCR_TEXT_ORIGINAL == 88

TRANSCRIPTION_LITERAL == 89

TRANSCRIPTION_FORMATTED == 96

OCR_ENGINE == 90

OCR_LANGUAGE_DETECTED == 91

OCR_STATUS == 92

TRANSCRIPTION_METHOD == 93

TRANSCRIPTION_REVIEW_STATUS == 94

TRANSCRIPTION_NOTES == 95

FORMATTING_METHOD == 97

FORMATTING_REVIEW_STATUS == 98

FORMATTING_NOTES == 99

PROCESSING_VERSION == 100

FieldIds ==
    {OCR_TEXT_ORIGINAL, TRANSCRIPTION_LITERAL, TRANSCRIPTION_FORMATTED,
     OCR_ENGINE, OCR_LANGUAGE_DETECTED, OCR_STATUS,
     TRANSCRIPTION_METHOD, TRANSCRIPTION_REVIEW_STATUS, TRANSCRIPTION_NOTES,
     FORMATTING_METHOD, FORMATTING_REVIEW_STATUS, FORMATTING_NOTES,
     PROCESSING_VERSION}

\* the fields of each layer
OcrFields == {OCR_TEXT_ORIGINAL, OCR_ENGINE, OCR_LANGUAGE_DETECTED, OCR_STATUS}

LiteralFields ==
    {TRANSCRIPTION_LITERAL, TRANSCRIPTION_METHOD, TRANSCRIPTION_REVIEW_STATUS,
     TRANSCRIPTION_NOTES}

FormattedFields ==
    {TRANSCRIPTION_FORMATTED, FORMATTING_METHOD, FORMATTING_REVIEW_STATUS,
     FORMATTING_NOTES}

\* the enum values (lines 90-115) and the notes (lines 537, 613)
GOOGLE_DOCUMENT_AI == <<"google_document_ai">>

DONE == <<"done">>

AI_SPELLING_NORMALISATION_ONLY == <<"ai_spelling_normalisation_only">>

UNREVIEWED == <<"unreviewed">>

REVIEWED == <<"reviewed">>

APPROVED == <<"approved">>

AI_FORMATTING_ONLY_NON_EDITORIAL == <<"ai_formatting_only_non_editorial">>

LiteralNotes == <<"spelling normalised only; tone and wording preserved">>

FormattingNotes == <<"paragraphing/punctuation/headers only; no rewriting">>

\* the characters str.strip removes
Whitespace == {" "}

RECURSIVE lstrip(_)
lstrip(s) == IF s # <<>> /\ Head(s) \in Whitespace THEN lstrip(Tail(s)) ELSE s

RECURSIVE rstrip(_)
rstrip(s) ==
    IF s # <<>> /\ s[Len(s)] \in Whitespace THEN rstrip(SubSeq(s, 1, Len(s) - 1)) ELSE s

\* str.strip
strip(s) == rstrip(lstrip(s))

\* lines 340-342: value is None or value.strip() == ""
is_empty(value) == value = None \/ strip(value[1]) = <<>>

\* lines 344-348: (a or "").strip() == (b or "").strip()
values_equal(a, b) ==
    LET a_norm == IF a = None THEN <<>> ELSE strip(a[1])
        b_norm == IF b = None THEN <<>> ELSE strip(b[1])
    IN  a_norm = b_norm

\* the truth value of an Optional[str]: neither None nor ""
Truthy(value) == value # None /\ value[1] # <<>>

\* lines 163-170; reason is None or Some(<<text>>) or Some(<<text, number>>)
FieldChange(field_id, field_name, action, reason) ==
    [field_id |-> field_id, field_name |-> field_name, action |-> action,
     reason |-> reason]

\* one step of a layer: an update_field call followed by add_change, or
\* (write = None) add_change alone
Write(field_id, value, change) == [write |-> Some([field |-> field_id, value |-> value]), change |-> change]

Record(change) == [write |-> None, change |-> change]

\* variant: the field is never taken as populated
OcrPopulated_never(existing) == FALSE

\* line 427: the field is populated
OcrPopulated(existing) == ~is_empty(Some(existing))

\* _sync_ocr (lines 412-471): the steps it takes
_sync_ocr(ocr_text, language, cur) ==
    LET existing == cur[OCR_TEXT_ORIGINAL]
    IN  IF OcrPopulated(existing)
        THEN <<Record(FieldChange(OCR_TEXT_ORIGINAL, "OCR Text (Original)", "skipped",
                                  Some(<<"immutable, already set", Len(existing)>>)))>>
        ELSE <<Write(OCR_TEXT_ORIGINAL, ocr_text,
                     FieldChange(OCR_TEXT_ORIGINAL, "OCR Text (Original)", "created", None)),
               Write(OCR_ENGINE, GOOGLE_DOCUMENT_AI,
                     FieldChange(OCR_ENGINE, "ocr_engine", "created", None)),
               Write(OCR_STATUS, DONE,
                     FieldChange(OCR_STATUS, "ocr_status", "created", None))>>
             \o (IF Truthy(language)
                 THEN <<Write(OCR_LANGUAGE_DETECTED, language[1],
                              FieldChange(OCR_LANGUAGE_DETECTED, "ocr_language_detected",
                                          "created", None))>>
                 ELSE <<>>)

\* variant: a populated field is not protected
MaySkipLiteral_never(existing, force) == FALSE

\* line 490: the field is populated and there is no force flag
MaySkipLiteral(existing, force) == ~is_empty(Some(existing)) /\ ~force

\* _sync_literal (lines 473-544)
_sync_literal(literal_text, force, cur) ==
    LET existing == cur[TRANSCRIPTION_LITERAL]
        name == "Transcription (Cleaned - Literal)"
        action == IF ~is_empty(Some(existing)) THEN "updated" ELSE "created"
    IN  IF MaySkipLiteral(existing, force)
        THEN <<Record(FieldChange(TRANSCRIPTION_LITERAL, name, "skipped",
                                  Some(<<"write-once, already set", Len(existing)>>)))>>
        ELSE IF values_equal(Some(existing), Some(literal_text))
        THEN <<Record(FieldChange(TRANSCRIPTION_LITERAL, name, "unchanged",
                                  Some(<<"content identical">>)))>>
        ELSE <<Write(TRANSCRIPTION_LITERAL, literal_text,
                     FieldChange(TRANSCRIPTION_LITERAL, name, action, None)),
               Write(TRANSCRIPTION_METHOD, AI_SPELLING_NORMALISATION_ONLY,
                     FieldChange(TRANSCRIPTION_METHOD, "transcription_method", action, None)),
               Write(TRANSCRIPTION_REVIEW_STATUS, REVIEWED,
                     FieldChange(TRANSCRIPTION_REVIEW_STATUS, "transcription_review_status",
                                 action, None)),
               Write(TRANSCRIPTION_NOTES, LiteralNotes,
                     FieldChange(TRANSCRIPTION_NOTES, "transcription_notes", action, None))>>

\* variant: only an approved formatting is kept
keep_statuses_approved == {APPROVED}

\* line 585
keep_statuses == {REVIEWED, APPROVED}

\* _sync_formatted (lines 546-620)
_sync_formatted(formatted_text, cur) ==
    LET existing == cur[TRANSCRIPTION_FORMATTED]
        name == "Transcription (Reader Formatted)"
        action == IF ~is_empty(Some(existing)) THEN "updated" ELSE "created"
        existing_review == cur[FORMATTING_REVIEW_STATUS]
    IN  IF values_equal(Some(existing), Some(formatted_text))
        THEN <<Record(FieldChange(TRANSCRIPTION_FORMATTED, name, "unchanged",
                                  Some(<<"content identical">>)))>>
        ELSE <<Write(TRANSCRIPTION_FORMATTED, formatted_text,
                     FieldChange(TRANSCRIPTION_FORMATTED, name, action, None)),
               Write(FORMATTING_METHOD, AI_FORMATTING_ONLY_NON_EDITORIAL,
                     FieldChange(FORMATTING_METHOD, "formatting_method", action, None)),
               IF existing_review \notin keep_statuses
               THEN Write(FORMATTING_REVIEW_STATUS, UNREVIEWED,
                          FieldChange(FORMATTING_REVIEW_STATUS, "formatting_review_status",
                                      action, None))
               ELSE Record(FieldChange(FORMATTING_REVIEW_STATUS, "formatting_review_status",
                                       "unchanged",
                                       Some(<<"kept existing (no downgrade)">> \o existing_review))),
               Write(FORMATTING_NOTES, FormattingNotes,
                     FieldChange(FORMATTING_NOTES, "formatting_notes", action, None))>>

\* _write_version (lines 622-647)
_write_version(version, cur) ==
    LET existing == cur[PROCESSING_VERSION]
        action == IF ~is_empty(Some(existing)) THEN "updated" ELSE "created"
    IN  IF existing = version
        THEN <<Record(FieldChange(PROCESSING_VERSION, "processing_version", "unchanged",
                                  Some(<<"same version">>)))>>
        ELSE <<Write(PROCESSING_VERSION, version,
                     FieldChange(PROCESSING_VERSION, "processing_version", action, None))>>

\* SyncResult (lines 173-180)
SyncResult(ok, changes, errors) ==
    [success |-> ok, changes |-> changes, errors |-> errors]

\* ---- the inputs ----

\* the texts offered as ocr_text
OcrTexts == {<<"x">>, <<"y">>}

\* the texts offered as literal_text and as formatted_text
LayerTexts == {<<"x", " ">>, <<"y">>}

Languages == {<<"d", "e">>}

Versions == {<<"v", "1">>}

Optional(S) == {None} \cup {Some(x) : x \in S}

\* the arguments of one sync call (lines 354-363), by the layer that reads
\* them: an argument is drawn when its layer runs, no sooner
OcrArgs == [ocr_text : Optional(OcrTexts), language : Optional(Languages)]

LiteralArgs == [literal_text : Optional(LayerTexts), force_literal : BOOLEAN]

FormattedArgs == [formatted_text : Optional(LayerTexts)]

VersionArgs == [version : Optional(Versions)]

\* the arguments a layer reads: any of all, or, for the calls that run beside
\* one another, those of sync(resource_id, ocr_text=..., language=...)
Offered(all, ocr_only) == IF pc = "sync_concurrent" THEN ocr_only ELSE all

\* the sync calls made on the resource
MaxSyncs == 1

\* the resource as a first sync call can find it
StoredFields ==
    { [f \in FieldIds |->
          IF f = OCR_TEXT_ORIGINAL THEN v[1]
          ELSE IF f = TRANSCRIPTION_LITERAL THEN v[2]
          ELSE IF f = TRANSCRIPTION_FORMATTED THEN v[3]
          ELSE IF f = FORMATTING_REVIEW_STATUS THEN v[4]
          ELSE <<>>] :
        v \in {<<>>, <<" ">>, <<"x">>} \X {<<>>, <<"x">>} \X {<<>>, <<"x">>}
              \X {<<>>, UNREVIEWED, REVIEWED, APPROVED} }

\* how an update_field call ends: ResourceSpace answers true; it answers
\* something else; or the call fails after the update was applied
UpdateOutcomes == {"ok", "rejected", "applied_then_error"}

\* ---- running the steps of a layer ----

RECURSIVE Apply(_, _)
\* the field values after the writes ws
Apply(fs, ws) ==
    IF ws = <<>> THEN fs
    ELSE Apply([fs EXCEPT ![Head(ws).field] = Head(ws).value], Tail(ws))

\* the writes among the steps
WritesOf(steps) ==
    LET with == SelectSeq(steps, LAMBDA st : st.write # None)
    IN  [i \in 1..Len(with) |-> with[i].write[1]]

ChangesOf(steps) == [i \in 1..Len(steps) |-> steps[i].change]

\* the places where a layer can fail: 0 for nowhere, or the step of a write
\* together with how its update_field call ends (lines 329-338)
FailPoints(steps) ==
    {[at |-> 0, how |-> "ok"]} \cup
    [at : {i \in 1..Len(steps) : steps[i].write # None},
     how : UpdateOutcomes \ {"ok"}]

\* variant: after an error the call goes on with its next layer
AfterError_continue(next) == next

\* lines 400-410: the except clauses of sync lead to "return result"
AfterError(next) == "returned"

\* the steps of caller p's layer are taken up to the failing one, if any; an
\* APIError ends the call (lines 399-402), otherwise the call goes on at next
RunSteps(p, steps, next) ==
    \E fail \in FailPoints(steps) :
        LET done == IF fail.at = 0 THEN steps ELSE SubSeq(steps, 1, fail.at - 1)
            issued == IF fail.at = 0 THEN WritesOf(steps)
                      ELSE WritesOf(SubSeq(steps, 1, fail.at))
            applied == IF fail.how = "applied_then_error" THEN issued ELSE WritesOf(done)
            r == sync_result[p]
        IN  /\ fields' = Apply(fields, applied)
            /\ updates' = [updates EXCEPT ![p] = @ \o issued]
            /\ IF fail.at = 0
               THEN /\ sync_result' = [sync_result EXCEPT ![p] =
                          SyncResult(r.success, r.changes \o ChangesOf(done), r.errors)]
                    /\ sync_pc' = [sync_pc EXCEPT ![p] = next]
               ELSE /\ sync_result' = [sync_result EXCEPT ![p] =
                          SyncResult(FALSE, r.changes \o ChangesOf(done),
                                     Append(r.errors, "Failed to update field"))]
                    /\ sync_pc' = [sync_pc EXCEPT ![p] = AfterError(next)]

\* the other variables of the module
NotSync == <<pc, verifyVars, voteVars, batchVars, reportVars>>

\* sync, lines 378-386: a new SyncResult, then get_resource_fields, which
\* raises ResourceNotFoundError or APIError or returns the field values
BeginSync(p) ==
    /\ sync_calls' = sync_calls + 1
    /\ sync_args' = [sync_args EXCEPT ![p] = <<>>]
    /\ \E fetch \in {"ok", "ResourceNotFoundError", "APIError"} :
          /\ IF fetch = "ok"
             THEN /\ current' = [current EXCEPT ![p] = fields]
                  /\ sync_result' = [sync_result EXCEPT ![p] = SyncResult(TRUE, <<>>, <<>>)]
                  /\ sync_pc' = [sync_pc EXCEPT ![p] = "ocr"]
             ELSE /\ current' = [current EXCEPT ![p] = <<>>]
                  /\ sync_result' = [sync_result EXCEPT ![p] = SyncResult(FALSE, <<>>, <<fetch>>)]
                  /\ sync_pc' = [sync_pc EXCEPT ![p] = AfterError("returned")]
    /\ updates' = [updates EXCEPT ![p] = <<>>]
    /\ UNCHANGED fields
    /\ UNCHANGED NotSync

\* a call of a caller whose earlier call, if any, has returned
SyncCall(p) ==
    /\ sync_pc[p] \in {"idle", "returned"}
    /\ sync_calls < MaxSyncs
    /\ BeginSync(p)

\* the one call of a caller that runs beside another caller's
ConcurrentCall(p) ==
    /\ sync_pc[p] = "idle"
    /\ BeginSync(p)

\* the arguments read so far, with those of one more layer
WithArgs(p, args) ==
    [sync_args EXCEPT ![p] =
        [n \in DOMAIN @ \cup DOMAIN args |-> IF n \in DOMAIN args THEN args[n] ELSE @[n]]]

\* a layer that was not asked for
SkipLayer(p, next) ==
    /\ sync_pc' = [sync_pc EXCEPT ![p] = next]
    /\ UNCHANGED <<fields, sync_result, updates>>

\* lines 388-390
SyncOcr(p) ==
    /\ sync_pc[p] = "ocr"
    /\ \E args \in Offered(OcrArgs, {a \in OcrArgs : a.ocr_text # None}) :
          /\ sync_args' = WithArgs(p, args)
          /\ IF args.ocr_text # None
             THEN RunSteps(p, _sync_ocr(args.ocr_text[1], args.language, current[p]),
                           "literal")
             ELSE SkipLayer(p, "literal")
    /\ UNCHANGED <<current, sync_calls>>
    /\ UNCHANGED NotSync

\* lines 391-393
SyncLiteral(p) ==
    /\ sync_pc[p] = "literal"
    /\ \E args \in Offered(LiteralArgs, {[literal_text |-> None, force_literal |-> FALSE]}) :
          /\ sync_args' = WithArgs(p, args)
          /\ IF args.literal_text # None
             THEN RunSteps(p, _sync_literal(args.literal_text[1], args.force_literal,
                                            current[p]), "formatted")
             ELSE SkipLayer(p, "formatted")
    /\ UNCHANGED <<current, sync_calls>>
    /\ UNCHANGED NotSync

\* lines 394-396
SyncFormatted(p) ==
    /\ sync_pc[p] = "formatted"
    /\ \E args \in Offered(FormattedArgs, {[formatted_text |-> None]}) :
          /\ sync_args' = WithArgs(p, args)
          /\ IF args.formatted_text # None
             THEN RunSteps(p, _sync_formatted(args.formatted_text[1], current[p]),
                           "version")
             ELSE SkipLayer(p, "version")
    /\ UNCHANGED <<current, sync_calls>>
    /\ UNCHANGED NotSync

\* lines 398-410: the version is written and the result returned
SyncVersion(p) ==
    /\ sync_pc[p] = "version"
    /\ \E args \in Offered(VersionArgs, {[version |-> None]}) :
          /\ sync_args' = WithArgs(p, args)
          /\ IF Truthy(args.version)
             THEN RunSteps(p, _write_version(args.version[1], current[p]), "returned")
             ELSE SkipLayer(p, "returned")
    /\ UNCHANGED <<current, sync_calls>>
    /\ UNCHANGED NotSync

InitSync ==
    /\ pc = "sync"
    /\ clients = <<>>
    /\ idx = 0
    /\ engine_results = <<>>
    /\ calls = [e \in Engines |-> 0]
    /\ result = None
    /\ raised = None
    /\ image = ImagePath
    /\ readings = <<>>
    /\ decision = None
    /\ BatchIdle
    /\ ReportIdle
    /\ fields \in StoredFields
    /\ sync_pc = [p \in Callers |-> "idle"]
    /\ sync_args = [p \in Callers |-> <<>>]
    /\ sync_calls = 0
    /\ current = [p \in Callers |-> <<>>]
    /\ sync_result = [p \in Callers |-> <<>>]
    /\ updates = [p \in Callers |-> <<>>]

\* one caller: its sync calls follow one another
NextSync ==
    \/ SyncCall(1)
    \/ SyncOcr(1)
    \/ SyncLiteral(1)
    \/ SyncFormatted(1)
    \/ SyncVersion(1)

SpecSync == InitSync /\ [][NextSync]_vars

\* two callers (two runs of the script, or two threads) on the same resource:
\* each makes one call, and their steps interleave in any order
NextSyncConcurrent ==
    \E p \in Callers :
        \/ ConcurrentCall(p)
        \/ SyncOcr(p)
        \/ SyncLiteral(p)
        \/ SyncFormatted(p)
        \/ SyncVersion(p)

\* the resource holds no transcription yet; its OCR text may be there
InitSyncConcurrent ==
    /\ pc = "sync_concurrent"
    /\ clients = <<>>
    /\ idx = 0
    /\ engine_results = <<>>
    /\ calls = [e \in Engines |-> 0]
    /\ result = None
    /\ raised = None
    /\ image = ImagePath
    /\ readings = <<>>
    /\ decision = None
    /\ BatchIdle
    /\ ReportIdle
    /\ fields \in {f \in StoredFields :
                     \A id \in FieldIds \ {OCR_TEXT_ORIGINAL} : f[id] = <<>>}
    /\ sync_pc = [p \in Callers |-> "idle"]
    /\ sync_args = [p \in Callers |-> <<>>]
    /\ sync_calls = 0
    /\ current = [p \in Callers |-> <<>>]
    /\ sync_result = [p \in Callers |-> <<>>]
    /\ updates = [p \in Callers |-> <<>>]

SpecSyncConcurrent == InitSyncConcurrent /\ [][NextSyncConcurrent]_vars

----------------------------------------------------------------------------
\* Properties of verify (specification Spec)

\* the result verify returned
Res == result[1]

\* the successful readings, read off the error field
Succeeded == SelectSeq(engine_results, LAMBDA e : e.v.error = None)

AllSucceeded == Len(Succeeded) = Len(engine_results)

\* all readings tokenize to the same sequence of tokens
SameTokens ==
    \A i, j \in 1..Len(engine_results) :
        tokenize(engine_results[i].v.text) = tokenize(engine_results[j].v.text)

\* the text re-joined from its own tokens
Rejoined(text) == JoinWith(<<" ">>, tokenize(text))

IsOne(c) == c.d # 0 /\ c.n = c.d

IsZero(c) == c.d # 0 /\ c.n = 0

\* C1 as stated: whenever all configured engines return identical tokenized
\* text - for any number of engines, a single one included, and any text, the
\* empty one included - every position is high and overall_confidence is 1.0.
C1_UnanimityAnyCase ==
    (pc = "done" /\ AllSucceeded /\ SameTokens)
        => /\ Res.high_confidence_words = Res.total_words
           /\ IsOne(Res.overall_confidence)

\* C1 amended: when two or more engines are configured and all of them return
\* identical tokenized text, every position of that text is high (none medium,
\* none low), and overall_confidence is 1.0 when the text has a token and 0.0
\* when it has none.
C1_Unanimity ==
    (pc = "done" /\ Len(clients) >= 2 /\ AllSucceeded /\ SameTokens)
        => /\ Res.total_words = Len(tokenize(engine_results[1].v.text))
           /\ Res.high_confidence_words = Res.total_words
           /\ Res.medium_confidence_words = 0
           /\ Res.low_confidence_words = 0
           /\ Res.total_words > 0 => IsOne(Res.overall_confidence)
           /\ Res.total_words = 0 => IsZero(Res.overall_confidence)

\* three engines agree on a token while their raw texts differ
C1_Witness ==
    /\ pc = "done" /\ Len(clients) >= 3 /\ AllSucceeded /\ SameTokens
    /\ Res.total_words >= 1
    /\ \E i, j \in 1..Len(engine_results) :
          engine_results[i].v.text # engine_results[j].v.text
    /\ IsOne(Res.overall_confidence)

\* C2: when exactly one reading succeeded the consensus text is that reading's
\* raw text, overall_confidence its self-reported confidence, every token is
\* counted low and there is no disagreement.
C2_SingleSuccess ==
    (pc = "done" /\ Len(Succeeded) = 1)
        => LET r == Succeeded[1].v
           IN  /\ Res.consensus_text = r.text
               /\ Res.overall_confidence = r.confidence
               /\ Res.high_confidence_words = 0
               /\ Res.medium_confidence_words = 0
               /\ Res.low_confidence_words = Len(tokenize(r.text))
               /\ Res.total_words = Len(tokenize(r.text))
               /\ Res.disagreements = <<>>

\* one of several engines succeeded, with a text that its tokens do not spell
C2_Witness ==
    /\ pc = "done" /\ Len(clients) >= 2 /\ Len(Succeeded) = 1
    /\ Len(tokenize(Succeeded[1].v.text)) = 2
    /\ Succeeded[1].v.text # Rejoined(Succeeded[1].v.text)
    /\ Res.consensus_text = Succeeded[1].v.text
    /\ Res.low_confidence_words = 2

\* C22: in every result verify returns, whether no, one or several readings
\* succeeded, the high, medium and low words add up to total_words.
C22_TiersPartition ==
    (pc = "done" /\ result # None)
        => Res.high_confidence_words + Res.medium_confidence_words
             + Res.low_confidence_words = Res.total_words

\* three readings: one position is medium, the other is high
C22_Witness ==
    /\ pc = "done" /\ result # None /\ Len(Succeeded) = 3
    /\ Res.total_words = 2
    /\ Res.medium_confidence_words = 1
    /\ Res.high_confidence_words = 1

\* C3: with two or more successful readings and overall_confidence > 0.8 the
\* consensus text is docai's raw text when docai succeeded, otherwise vision's
\* raw text when vision succeeded.
C3_TrustedOverride ==
    (/\ pc = "done" /\ Len(Succeeded) >= 2
     /\ 5 * Res.overall_confidence.n > 4 * Res.overall_confidence.d)
        => /\ Has(Succeeded, "docai")
                => Res.consensus_text = Get(Succeeded, "docai").text
           /\ (~Has(Succeeded, "docai") /\ Has(Succeeded, "vision"))
                => Res.consensus_text = Get(Succeeded, "vision").text

\* docai and vision both succeeded with different raw texts, and docai's raw
\* text is not what the tokens join to
C3_Witness ==
    /\ pc = "done" /\ Len(Succeeded) >= 3
    /\ 5 * Res.overall_confidence.n > 4 * Res.overall_confidence.d
    /\ Has(Succeeded, "docai") /\ Has(Succeeded, "vision")
    /\ Get(Succeeded, "docai").text # Get(Succeeded, "vision").text
    /\ Get(Succeeded, "docai").text # Rejoined(Get(Succeeded, "docai").text)
    /\ Res.consensus_text = Get(Succeeded, "docai").text

\* C8, in every state: an engine is called at most once; the readings are
\* those of the clients run so far, one each, in order; a failed reading has
\* its error set, an empty text and confidence 0; an exception leaves verify
\* only before any engine was called; the result holds every reading.
C8_State ==
    /\ \A e \in Engines : calls[e] <= 1
    /\ pc = "raised" => \A e \in Engines : calls[e] = 0
    /\ pc \in {"loop", "done"}
         => /\ raised = None
            /\ idx <= Len(clients) + 1
            /\ Keys(engine_results) = SubSeq(clients, 1, idx - 1)
            /\ \A i \in 1..Len(clients) : calls[clients[i]] = IF i < idx THEN 1 ELSE 0
    /\ pc = "loop" => idx <= Len(clients)
    /\ \A i \in 1..Len(engine_results) :
          /\ engine_results[i].v.engine = engine_results[i].k
          /\ engine_results[i].v.error # None
               => /\ engine_results[i].v.text = <<>>
                  /\ IsZero(engine_results[i].v.confidence)
    /\ pc = "done"
         => /\ Keys(engine_results) = clients
            /\ Res.engine_results = engine_results
            /\ Res.models_used = clients

\* C8, in every step: the readings already stored are neither altered nor
\* discarded
C8_Step ==
    \A i \in 1..Len(engine_results) :
        i <= Len(engine_results') /\ engine_results'[i] = engine_results[i]

\* C8: each configured engine is invoked exactly once and yields exactly one
\* reading; an engine's exception becomes a failed reading and never leaves
\* verify; the other engines are still run and their readings kept.
C8_FailureIsolation == []C8_State /\ [][C8_Step]_vars

\* an LLM engine and an OCR engine failed, later engines still ran and one
\* of them succeeded
C8_Witness ==
    /\ pc = "done" /\ Len(clients) = 4
    /\ engine_results[1].v.error # None
    /\ engine_results[2].v.error = None /\ engine_results[2].v.text # <<>>
    /\ engine_results[3].v.error # None
    /\ engine_results[4].v.error = None
    /\ \A e \in Engines : calls[e] = 1

C10_AllFailed ==
    (pc = "done" /\ Succeeded = <<>>)
        => /\ raised = None
           /\ Res.consensus_text = <<>>
           /\ IsZero(Res.overall_confidence)
           /\ Res.total_words = 0
           /\ Res.high_confidence_words = 0
           /\ Res.medium_confidence_words = 0
           /\ Res.low_confidence_words = 0
           /\ Res.disagreements = <<>>
           /\ Res.models_used = clients
           /\ Res.engine_results = engine_results
           /\ Len(engine_results) = Len(clients)

\* three engines were run and all failed
C10_Witness ==
    /\ pc = "done" /\ Len(clients) = 3 /\ Succeeded = <<>>
    /\ Len(Res.engine_results) = 3
    /\ Res.models_used = clients

----------------------------------------------------------------------------
\* Properties of calculate_consensus (specification SpecVote)

\* the decision calculate_consensus returned
Dec == decision[1]

\* the entries of the row that hold a token
Valid == {i \in 1..Len(readings) : readings[i].v # <<>>}

VTotal == Cardinality(Valid)

Occurrences(w) == Cardinality({i \in Valid : readings[i].v = w})

\* occurrences of the most frequent token
VCount == IF Valid = {} THEN 0 ELSE Max({Occurrences(readings[i].v) : i \in Valid})

\* C4: the tier is high exactly when there is a reading and all agree or three
\* or more agree, medium exactly when two agree among three or more, and low
\* in every other case.
C4_TierTable ==
    pc = "voted"
        => /\ Dec.confidence \in {"high", "medium", "low"}
           /\ Dec.confidence = "high"
                <=> (VTotal >= 1 /\ (VCount = VTotal \/ VCount >= 3))
           /\ Dec.confidence = "medium"
                <=> (VCount = 2 /\ 3 <= VTotal /\ VCount < VTotal)

\* three of four engines agree
C4_Witness ==
    /\ pc = "voted" /\ VCount = 3 /\ VTotal = 4
    /\ Dec.confidence = "high"

\* the dedicated OCR entries that hold a token
OcrValid == {i \in Valid : readings[i].k \in {"docai", "vision"}}

C6_TotalDisagreement ==
    (/\ pc = "voted" /\ VTotal >= 2
     /\ \A i, j \in Valid : i # j => readings[i].v # readings[j].v)
        => /\ Dec.chosen = None
           /\ Dec.confidence = "low"
           /\ Dec.reason = "No consensus - flagged for human review"

\* three valid, all-distinct readings
C6_Witness ==
    /\ pc = "voted" /\ VTotal = 3
    /\ \A i, j \in Valid : i # j => readings[i].v # readings[j].v
    /\ Dec.chosen = None

\* two or more distinct tokens are most frequent
Tie == \E i, j \in Valid :
          /\ readings[i].v # readings[j].v
          /\ Occurrences(readings[i].v) = VCount
          /\ Occurrences(readings[j].v) = VCount

\* C7: when distinct tokens tie for most frequent, the plurality word of the
\* vote is the tied token of the earliest engine of the row, and in the row
\* every dedicated OCR engine precedes every vision-LLM engine.
C7_TieBreakOrder ==
    (pc = "voted" /\ Tie)
        => /\ \A i, j \in 1..Len(readings) :
                (readings[i].k \in {"docai", "vision"} /\ readings[j].k \in {"claude", "gpt"})
                    => i < j
           /\ LET tied == {i \in Valid : Occurrences(readings[i].v) = VCount}
                  first == CHOOSE i \in tied : \A j \in tied : i <= j
              IN  Dec.most_common = Some([word |-> readings[first].v, count |-> VCount])

\* a 2/2 tie across the classes: the first engine's word is the plurality word
C7_Witness ==
    /\ pc = "voted" /\ Tie /\ VCount = 2 /\ VTotal = 4
    /\ readings[1].v # readings[2].v
    /\ Dec.chosen = Some(readings[1].v)
    /\ Dec.reason = "Split vote - majority wins"

\* C21: the chosen word of a decision is null if and only if its tier is low,
\* and a chosen word is a non-empty token that an engine read at the position.
C21_ChosenUnlessLow ==
    pc = "voted"
        => /\ Dec.chosen = None <=> Dec.confidence = "low"
           /\ Dec.chosen # None
                => /\ Dec.chosen[1] # <<>>
                   /\ \E i \in Valid : readings[i].v = Dec.chosen[1]

\* a medium decision: two of three engines agree and their word is chosen
C21_Witness ==
    /\ pc = "voted" /\ VTotal = 3 /\ VCount = 2
    /\ Dec.confidence = "medium"
    /\ Dec.chosen # None
    /\ Occurrences(Dec.chosen[1]) = 2

\* C24: for every decision with a chosen word, the k of the agreement ratio
\* is the number of voting engines whose token is the chosen word, and the
\* chosen word is a most frequent token of its position.
C24_ChosenIsMostFrequent ==
    (pc = "voted" /\ Dec.chosen # None)
        => /\ Dec.agreement.k = Occurrences(Dec.chosen[1])
           /\ Occurrences(Dec.chosen[1]) = VCount

\* C25: a position is high only if at least two engines have the same
\* non-empty token there; a position where one engine alone has a token is
\* never high. The rows are those of two or more successful readings.
C25_HighIsCorroborated ==
    (pc = "voted" /\ Len(readings) >= 2 /\ Dec.confidence = "high") => VCount >= 2

\* C27: at a position where docai and vision read different words and each
\* of those words is also read by exactly one of claude and gpt, the chosen
\* word is docai's word, as in the docai-first order of the reconstruction.
C27_TieGoesToDocai ==
    (/\ pc = "voted"
     /\ Keys(readings) = ClientOrder
     /\ Valid = 1..4
     /\ Get(readings, "docai") # Get(readings, "vision")
     /\ Occurrences(Get(readings, "docai")) = 2
     /\ Occurrences(Get(readings, "vision")) = 2)
        => Dec.chosen = Some(Get(readings, "docai"))

----------------------------------------------------------------------------
\* Properties of the batch mode of main (specification SpecBatch)

\* the images whose iteration ended without an exception
Clean(k) == batch_log[k].error = None

\* a later iteration wrote the same output file
WrittenOver(k) ==
    \E j \in (k + 1)..Len(batch_log) :
        /\ batch_log[j].image.stem = batch_log[k].image.stem
        /\ batch_log[j].result # None

C11_State ==
    pc \in {"batch", "batch_done"} =>
        /\ Len(batch_log) = bi - 1
        /\ Len(batch_log) <= Len(images)
        /\ \A k \in 1..Len(batch_log) : batch_log[k].image = images[k]
        /\ \A k \in 1..Len(batch_log) :
              \/ batch_log[k].error # None
              \/ /\ batch_log[k].result # None
                 /\ batch_log[k].wrote = Some(batch_log[k].result[1].consensus_text)
                 /\ Has(outputs, batch_log[k].image.stem)
                 /\ \/ Get(outputs, batch_log[k].image.stem) = batch_log[k].wrote[1]
                    \/ WrittenOver(k)
        /\ pc = "batch_done" => Len(batch_log) = Len(images)

----------------------------------------------------------------------------
\* Properties of the result and its report (specification SpecReadings)

\* the report generate_report returned
Rep == report[1]

\* the token sequences of the successful readings
TokenLists ==
    LET read == successful_texts(engine_results)
    IN  [j \in 1..Len(read) |-> tokenize(read[j].v)]

\* the tokens read at position p (0-based) by the engines that have one there
TokensAt(toks, p) == {toks[j][p + 1] : j \in {i \in 1..Len(toks) : Len(toks[i]) > p}}

\* the 0-based positions at which two or more successful readings differ
DisagreeingPositions(toks) ==
    IF Len(toks) < 2 THEN {}
    ELSE {p \in 0..(Max({Len(toks[j]) : j \in 1..Len(toks)}) - 1) :
            Cardinality(TokensAt(toks, p)) > 1}

\* C12: the report lists min(n, 50) disagreements, n being the number of
\* positions where more than one distinct non-empty token was read: they are
\* the first min(n, 50) such positions, in strictly ascending order.
C12_ReportCap ==
    pc = "reported" =>
        LET ds == Rep.disagreements
            positions == DisagreeingPositions(TokenLists)
            n == Cardinality(positions)
        IN  /\ Len(ds) = Min(n, ReportLimit)
            /\ \A k \in 1..Len(ds) :
                  /\ ds[k].position \in positions
                  /\ Cardinality({p \in positions : p < ds[k].position}) = k - 1
            /\ \A k \in 1..(Len(ds) - 1) : ds[k].position < ds[k + 1].position

\* more than 50 positions disagree, and the first of them is not position 0
C12_Witness ==
    /\ pc = "reported"
    /\ Cardinality(DisagreeingPositions(TokenLists)) > ReportLimit
    /\ Len(Rep.disagreements) = ReportLimit
    /\ Rep.disagreements[1].position = 1

C14_FractionHigh ==
    pc = "reported" =>
        /\ Res.overall_confidence.n * Res.total_words
              = Res.high_confidence_words * Res.overall_confidence.d
        /\ Res.total_words = 0 => IsZero(Res.overall_confidence)

\* C14: when no reading or two or more readings succeeded,
\* overall_confidence * total_words equals high_confidence_words, and
\* overall_confidence is 0 without positions; when exactly one reading
\* succeeded, overall_confidence is that reading's own confidence and
\* high_confidence_words is 0.
C14_FractionHighUnlessSingle ==
    pc = "reported" =>
        IF Len(Succeeded) = 1
        THEN /\ Res.overall_confidence = Succeeded[1].v.confidence
             /\ Res.high_confidence_words = 0
        ELSE /\ Res.overall_confidence.n * Res.total_words
                   = Res.high_confidence_words * Res.overall_confidence.d
             /\ Res.total_words = 0 => IsZero(Res.overall_confidence)

\* two readings of five words that agree on four of them
C14_Witness ==
    /\ pc = "reported"
    /\ Len(Succeeded) = 2
    /\ Res.total_words = 5
    /\ Res.high_confidence_words = 4
    /\ Res.overall_confidence = Frac(4, 5)

\* the word of a row: the chosen token when there is one, otherwise the
\* non-empty token of the first of docai, vision, claude, gpt that has one
WordOf(row) ==
    LET chosen == calculate_consensus(row).chosen
        first(e) == Has(row, e) /\ Get(row, e) # <<>>
    IN  IF chosen # None THEN chosen[1]
        ELSE IF first("docai") THEN Get(row, "docai")
        ELSE IF first("vision") THEN Get(row, "vision")
        ELSE IF first("claude") THEN Get(row, "claude")
        ELSE Get(row, "gpt")

\* the trusted-engine override applies to the result
Overridden ==
    /\ GreaterThan08(Res.overall_confidence)
    /\ \E j \in 1..Len(Succeeded) : Succeeded[j].k \in {"docai", "vision"}

\* C19: when two or more readings succeeded and the trusted-engine override
\* does not apply, consensus_text is the single-space join of exactly one
\* word per alignment position, in position order: the chosen token when it
\* is non-null, otherwise the non-empty token of the first engine in the
\* order docai, vision, claude, gpt.
C19_TextReconstruction ==
    (pc = "reported" /\ Len(Succeeded) >= 2 /\ ~Overridden) =>
        /\ Res.total_words = Len(aligned_rows)
        /\ Res.consensus_text
              = JoinWith(<<" ">>, [i \in 1..Len(aligned_rows) |-> WordOf(aligned_rows[i])])

\* Document AI and Claude agree on four positions of five (exactly 0.8), the
\* fifth has no chosen token and takes Document AI's, and the joined text is
\* not Document AI's raw text
C19_Witness ==
    /\ pc = "reported"
    /\ Keys(Succeeded) = <<"docai", "claude">>
    /\ Res.overall_confidence = Frac(4, 5)
    /\ calculate_consensus(aligned_rows[5]).chosen = None
    /\ Res.consensus_text = <<"a", " ", "a", " ", "a", " ", "a", " ", "b">>
    /\ Res.consensus_text # Get(Succeeded, "docai").text

\* C26: whenever the result is built from two or more successful readings,
\* at every position whose tier is high the token of the tokenized final
\* consensus_text is the chosen token of that position, also when the
\* trusted-engine override is applied. Only the positions where two or more
\* engines read the chosen token are looked at.
C26_HighTokensKept ==
    (pc = "reported" /\ Len(Succeeded) >= 2) =>
        LET final == tokenize(Res.consensus_text)
        IN  \A i \in 1..Len(aligned_rows) :
                LET d == calculate_consensus(aligned_rows[i])
                IN  (d.confidence = "high" /\ d.agreement.k >= 2)
                        => /\ i <= Len(final)
                           /\ final[i] = d.chosen[1]

----------------------------------------------------------------------------
\* Properties of align_texts (specification SpecAlign)

\* C20: for any map of engine to text, align_texts returns exactly maxLen
\* rows, maxLen being the largest per-engine token count (0 rows for an empty
\* map); every row has an entry for every engine; the entry of engine e in
\* row i is e's i-th token when i is below e's token count and the empty
\* string otherwise, so every row contains at least one non-empty token.
C20_Alignment ==
    pc = "aligned" =>
        LET toks == [j \in 1..Len(texts) |-> tokenize(texts[j].v)]
            maxLen == IF texts = <<>> THEN 0 ELSE Max({Len(toks[j]) : j \in 1..Len(toks)})
        IN  /\ Len(aligned_rows) = maxLen
            /\ \A i \in 1..Len(aligned_rows) :
                  /\ Keys(aligned_rows[i]) = Keys(texts)
                  /\ \A j \in 1..Len(texts) :
                        aligned_rows[i][j].v
                          = IF i <= Len(toks[j]) THEN toks[j][i] ELSE <<>>
                  /\ \E j \in 1..Len(texts) : aligned_rows[i][j].v # <<>>

\* three texts of two, one and no tokens: the second row pads two engines
C20_Witness ==
    /\ pc = "aligned"
    /\ Keys(texts) = <<"docai", "claude", "gpt">>
    /\ Len(tokenize(Get(texts, "docai"))) = 0
    /\ Len(tokenize(Get(texts, "claude"))) = 2
    /\ Len(tokenize(Get(texts, "gpt"))) = 1
    /\ Len(aligned_rows) = 2
    /\ Values(aligned_rows[2]) = <<<<>>, <<"b">>, <<>>>>

----------------------------------------------------------------------------
\* Properties of verify on a file of an unsupported type (specification
\* SpecUnsupported)

Unsupported == suffix_lower(image.suffix) \notin SUPPORTED_TYPES

\* C15: verify on an image whose extension is not a supported type fails at
\* once: it never enters its loop over the engines, no extract_text is called
\* and no result is returned.
C15_FailsBeforeEngines ==
    Unsupported =>
        /\ pc \notin {"loop", "done"}
        /\ \A e \in Engines : calls[e] = 0
        /\ result = None

----------------------------------------------------------------------------
\* Properties of sync (specification SpecSync)

\* caller p's call has read the arguments named
HasRead(p, name) == name \in DOMAIN sync_args[p]

\* the fields caller p's call asked ResourceSpace to update
Updated(p) == {updates[p][i].field : i \in 1..Len(updates[p])}

\* the changes caller p's call recorded for a field
ChangesFor(p, field_id) ==
    SelectSeq(sync_result[p].changes, LAMBDA c : c.field_id = field_id)

Populated(value) == strip(value) # <<>>

\* caller p's call was offered OCR text and its OCR layer is over
OcrOffered(p) ==
    /\ HasRead(p, "ocr_text")
    /\ sync_args[p].ocr_text # None
    /\ sync_pc[p] # "ocr"

C16_State ==
    \A p \in Callers :
        (OcrOffered(p) /\ Populated(current[p][OCR_TEXT_ORIGINAL])) =>
            /\ Len(ChangesFor(p, OCR_TEXT_ORIGINAL)) = 1
            /\ ChangesFor(p, OCR_TEXT_ORIGINAL)[1].action = "skipped"
            /\ Updated(p) \cap OcrFields = {}

C16_Step ==
    (pc = "sync" /\ Populated(fields[OCR_TEXT_ORIGINAL])) =>
        fields'[OCR_TEXT_ORIGINAL] = fields[OCR_TEXT_ORIGINAL]

LiteralOffered(p) ==
    /\ HasRead(p, "literal_text")
    /\ sync_args[p].literal_text # None
    /\ sync_pc[p] # "literal"

\* C17: a sync call that finds the literal field non-blank and has no
\* force_literal records "skipped" and asks for no update of the literal text
\* or of a literal metadata field; a call asks for an update of a non-blank
\* literal field only with force_literal and a text that differs from the
\* stored one after trimming.
C17_LiteralWriteOnce ==
    \A p \in Callers :
        (LiteralOffered(p) /\ Populated(current[p][TRANSCRIPTION_LITERAL])) =>
            /\ ~sync_args[p].force_literal =>
                  /\ Len(ChangesFor(p, TRANSCRIPTION_LITERAL)) = 1
                  /\ ChangesFor(p, TRANSCRIPTION_LITERAL)[1].action = "skipped"
                  /\ Updated(p) \cap LiteralFields = {}
                  /\ fields[TRANSCRIPTION_LITERAL] = current[p][TRANSCRIPTION_LITERAL]
            /\ Updated(p) \cap LiteralFields # {} =>
                  /\ sync_args[p].force_literal
                  /\ strip(sync_args[p].literal_text[1])
                        # strip(current[p][TRANSCRIPTION_LITERAL])
            /\ fields[TRANSCRIPTION_LITERAL] # current[p][TRANSCRIPTION_LITERAL] =>
                  /\ sync_args[p].force_literal
                  /\ fields[TRANSCRIPTION_LITERAL] = sync_args[p].literal_text[1]

\* an unforced call that brought another literal text for a populated field
C17_Witness ==
    /\ sync_pc[1] = "returned"
    /\ sync_result[1].success
    /\ sync_args[1].literal_text = Some(<<"y">>)
    /\ ~sync_args[1].force_literal
    /\ current[1][TRANSCRIPTION_LITERAL] = <<"x">>
    /\ fields[TRANSCRIPTION_LITERAL] = <<"x">>
    /\ ChangesFor(1, TRANSCRIPTION_LITERAL)[1].action = "skipped"
    /\ Updated(1) # {}

\* caller p's call was offered a formatted text and its formatted layer is over
FormattedOffered(p) ==
    /\ HasRead(p, "formatted_text")
    /\ sync_args[p].formatted_text # None
    /\ sync_pc[p] # "formatted"

\* the formatted layer of caller p's call ran to its end
FormattedDone(p) == sync_pc[p] = "version" \/ HasRead(p, "version")

\* C18: a sync call whose formatted text equals the stored one after trimming
\* asks for no update of a formatted-layer field; one that creates or updates
\* the formatted text leaves formatting_review_status alone when it found
\* "reviewed" or "approved" there, and sets it to "unreviewed" otherwise.
C18_NoDowngrade ==
    \A p \in Callers :
        FormattedOffered(p) =>
            LET existing == current[p][TRANSCRIPTION_FORMATTED]
                review == current[p][FORMATTING_REVIEW_STATUS]
                same == strip(existing) = strip(sync_args[p].formatted_text[1])
            IN  /\ same => Updated(p) \cap FormattedFields = {}
                /\ review \in {REVIEWED, APPROVED} =>
                      /\ FORMATTING_REVIEW_STATUS \notin Updated(p)
                      /\ fields[FORMATTING_REVIEW_STATUS] = review
                /\ (review \notin {REVIEWED, APPROVED} /\ ~same /\ FormattedDone(p)) =>
                      /\ FORMATTING_REVIEW_STATUS \in Updated(p)
                      /\ fields[FORMATTING_REVIEW_STATUS] = UNREVIEWED
                /\ fields[FORMATTING_REVIEW_STATUS] \in {review, UNREVIEWED}

\* a reviewed formatted text was replaced and is still reviewed
C18_Witness ==
    /\ sync_pc[1] = "returned"
    /\ sync_result[1].success
    /\ current[1][TRANSCRIPTION_FORMATTED] = <<"x">>
    /\ current[1][FORMATTING_REVIEW_STATUS] = REVIEWED
    /\ fields[TRANSCRIPTION_FORMATTED] = <<"y">>
    /\ fields[FORMATTING_REVIEW_STATUS] = REVIEWED
    /\ FORMATTING_NOTES \in Updated(1)

\* caller p's call met an error
SyncFailed(p) == sync_pc[p] # "idle" /\ ~sync_result[p].success

\* in every state of a call: a call that met an error has returned, with
\* success false and an error listed; every update it issued before the
\* failing one is in place; a call without error lists none
C23_State ==
    \A p \in {1} :
        sync_pc[p] # "idle" =>
            /\ sync_result[p].success \in BOOLEAN
            /\ sync_result[p].success <=> sync_result[p].errors = <<>>
            /\ SyncFailed(p) =>
                  /\ sync_pc[p] = "returned"
                  /\ \A i \in 1..(Len(updates[p]) - 1) :
                        fields[updates[p][i].field] = updates[p][i].value

\* in every step: a call that met an error issues no further update and
\* writes no field, and the processing version is written by the version
\* step only, which a call that met an error does not reach
C23_Step ==
    /\ (SyncFailed(1) /\ sync_calls' = sync_calls)
          => UNCHANGED <<fields, updates, sync_result>>
    /\ fields'[PROCESSING_VERSION] # fields[PROCESSING_VERSION]
          => sync_pc[1] = "version" /\ sync_result[1].success

----------------------------------------------------------------------------
\* Properties of concurrent sync calls (specification SpecSyncConcurrent)

\* C28: under any interleaving of two sync calls on the same resource that
\* both carry OCR text, OCR Text (Original) is written at most once: the value
\* the first writer stored is never overwritten by the second.
C28_Step ==
    (pc = "sync_concurrent" /\ Populated(fields[OCR_TEXT_ORIGINAL]))
        => fields'[OCR_TEXT_ORIGINAL] = fields[OCR_TEXT_ORIGINAL]

C28_WrittenOnce == [][C28_Step]_vars

====
